---- MODULE Spec2Model ----
(***************************************************************************)
(* Model of rust_decimal_cql: the DecimalCql wrapper that serializes a     *)
(* rust_decimal Decimal into the CQL decimal cell format and deserializes  *)
(* it back (src/src/lib.rs, src/src/error.rs).                             *)
(*                                                                         *)
(* Integers wider than the checker's machine integers are kept as         *)
(* big-endian sequences of 16-bit limbs:                                   *)
(*   u32   : 2 limbs                                                       *)
(*   i128  : [neg, mag], mag = 8 limbs of the absolute value               *)
(*   Decimal: [neg, scale, mag], mag = 6 limbs (96 bits), scale in 0..28   *)
(* Bytes on the wire are sequences of 0..255.                              *)
(***************************************************************************)
EXTENDS Integers, Sequences, FiniteSets, TLC

VARIABLES
    value,      \* the DecimalCql handed to serialize (Option)
    buffer,     \* the Vec<u8> behind the CellWriter (Option)
    frame,      \* the Option<FrameSlice> handed to deserialize
    extracted,  \* what extract_scale_and_mantissa_from_slice returned
    result,     \* what deserialize returned (or that it panicked)
    typ,        \* the ColumnType handed to type_check (Option)
    checked,    \* what type_check returned
    last        \* the codec call made last

vars == <<value, buffer, frame, extracted, result, typ, checked, last>>

(***************************************************************************)
(* Program constants                                                       *)
(***************************************************************************)
SCALE_BYTES == 4
PADDING_BYTES == 16
\* rust_decimal: Decimal::MAX_SCALE, the bound from_i128_with_scale enforces
MAX_SCALE == 28

(***************************************************************************)
(* Bounds of the model                                                     *)
(***************************************************************************)
\* longest run of the fill byte in a generated mantissa field
MaxFill == 17

(***************************************************************************)
(* Byte and limb helpers                                                   *)
(***************************************************************************)
Byte == 0..255
LimbBase == 65536

Rep(b, n) == [i \in 1..n |-> b]
Zeros(n) == Rep(0, n)

\* two bytes per limb, big-endian
Limbs(b) == [i \in 1..(Len(b) \div 2) |-> b[2 * i - 1] * 256 + b[2 * i]]
Unlimbs(l) ==
    [i \in 1..(2 * Len(l)) |->
        IF i % 2 = 1 THEN l[(i + 1) \div 2] \div 256 ELSE l[i \div 2] % 256]

Invert(b) == [i \in 1..Len(b) |-> 255 - b[i]]

RECURSIVE AddOne(_)
AddOne(b) ==
    IF Len(b) = 0 THEN <<>>
    ELSE LET n == Len(b)
         IN  IF b[n] = 255
             THEN AddOne(SubSeq(b, 1, n - 1)) \o <<0>>
             ELSE SubSeq(b, 1, n - 1) \o <<b[n] + 1>>

\* two's-complement negation of a fixed-width big-endian byte string
Negate(b) == AddOne(Invert(b))

IsZero(l) == \A i \in 1..Len(l) : l[i] = 0

(***************************************************************************)
(* Fixed-width integer conversions used by the codec                       *)
(***************************************************************************)
u32_from_be_bytes(b) == Limbs(b)

\* `scale as i32` keeps the 32 bits; i32::to_be_bytes writes them out
i32_to_be_bytes(u) == Unlimbs(u)

i128_from_be_bytes_unsigned(b) == [neg |-> FALSE, mag |-> Limbs(b)]
i128_from_be_bytes(b) ==
    IF b[1] >= 128
    THEN [neg |-> TRUE, mag |-> Limbs(Negate(b))]
    ELSE [neg |-> FALSE, mag |-> Limbs(b)]

RECURSIVE TrimLeadingZeros(_)
TrimLeadingZeros(b) ==
    IF Len(b) > 1 /\ b[1] = 0 /\ b[2] < 128 THEN TrimLeadingZeros(Tail(b)) ELSE b

i128_to_be_bytes_minimal(x) ==
    IF x.neg THEN Negate(Unlimbs(x.mag)) ELSE TrimLeadingZeros(Unlimbs(x.mag))
i128_to_be_bytes(x) ==
    IF x.neg THEN Negate(Unlimbs(x.mag)) ELSE Unlimbs(x.mag)

(***************************************************************************)
(* rust_decimal::Decimal as used by the codec                              *)
(***************************************************************************)
\* Decimal::mantissa(): the signed 96-bit unscaled value widened to i128
mantissa(d) ==
    [neg |-> d.neg /\ ~IsZero(d.mag), mag |-> <<0, 0>> \o d.mag]

\* Decimal::scale(): u32
scale(d) == <<0, d.scale>>

Ok(v) == [kind |-> "Ok", value |-> v]
Err(e) == [kind |-> "Err", error |-> e]
Panic(m) == [kind |-> "Panic", message |-> m]
NotCalled == [kind |-> "NotCalled"]

\* Decimal::from_i128_with_scale panics when the scale exceeds MAX_SCALE or
\* the number does not fit in 96 bits
from_i128_with_scale(num, s) ==
    IF s[1] > 0 \/ s[2] > MAX_SCALE
    THEN Panic("ScaleExceedsMaximumPrecision")
    ELSE IF ~IsZero(SubSeq(num.mag, 1, 2))
    THEN Panic(IF num.neg THEN "LessThanMinimumPossibleValue"
                          ELSE "ExceedsMaximumPossibleValue")
    ELSE Ok([neg |-> num.neg, scale |-> s[2], mag |-> SubSeq(num.mag, 3, 8)])

RECURSIVE MulSmall(_, _, _)
MulSmall(l, m, carry) ==
    IF Len(l) = 0 THEN <<>>
    ELSE LET n == Len(l)
             p == l[n] * m + carry
         IN  MulSmall(SubSeq(l, 1, n - 1), m, p \div LimbBase) \o <<p % LimbBase>>

RECURSIVE MulPow10(_, _)
MulPow10(l, k) == IF k = 0 THEN l ELSE MulPow10(MulSmall(l, 10, 0), k - 1)

\* PartialEq of DecimalCql is Decimal's: numeric equality, zero of either sign
\* and any scale is one value
DecimalEq(a, b) ==
    IF IsZero(b.mag) THEN IsZero(a.mag)
    ELSE IF IsZero(a.mag) THEN FALSE
    ELSE IF a.neg # b.neg THEN FALSE
    ELSE LET wa == Zeros(6) \o a.mag
             wb == Zeros(6) \o b.mag
         IN  IF a.scale <= b.scale
             THEN MulPow10(wa, b.scale - a.scale) = wb
             ELSE wa = MulPow10(wb, a.scale - b.scale)

(***************************************************************************)
(* Option values and errors                                                *)
(***************************************************************************)
None == [present |-> FALSE]
Some(x) == [present |-> TRUE, val |-> x]

FrameHasNoSlice == [name |-> "FrameHasNoSlice"]
ByteArrayTooShort(n) == [name |-> "ByteArrayTooShort", len |-> n]
InvalidMantissaConversion == [name |-> "InvalidMantissaConversion"]
MismatchedType(msg) == [name |-> "MismatchedType", msg |-> msg]

\* Display for DecimalCqlError
Display(e) ==
    IF e.name = "MismatchedType" THEN <<"Type Mismatch: ">> \o e.msg
    ELSE IF e.name = "FrameHasNoSlice" THEN <<"Frame has no slice">>
    ELSE IF e.name = "ByteArrayTooShort"
    THEN <<"Byte array too short. Expected at least 4 bytes, got: ", e.len>>
    ELSE <<"Could not convert array to i128">>

(***************************************************************************)
(* serialize                                                               *)
(***************************************************************************)
\* CqlDecimal::from_signed_be_bytes_and_exponent keeps the bytes as given
CqlDecimal(bytes, exponent) == [bytes |-> bytes, exponent |-> exponent]

\* CqlDecimal::serialize into the CellWriter: the i32 length of the cell, the
\* i32 exponent, then the integer's bytes
WriteCell(c) ==
    LET body == i32_to_be_bytes(c.exponent) \o c.bytes
    IN  i32_to_be_bytes(<<Len(body) \div LimbBase, Len(body) % LimbBase>>) \o body

serialize(d) ==
    LET mantissa_bytes == i128_to_be_bytes(mantissa(d))
    IN  WriteCell(CqlDecimal(mantissa_bytes, scale(d)))

(***************************************************************************)
(* extract_scale_and_mantissa_from_slice                                   *)
(***************************************************************************)
\* <[u8]>::try_into::<[u8; n]>
TryInto(s, n) == IF Len(s) = n THEN Ok(s) ELSE Err("TryFromSliceError")

TooShort_three(bytes) == Len(bytes) < SCALE_BYTES - 1
TooShort(bytes) == Len(bytes) < SCALE_BYTES

ScaleField(bytes) == SubSeq(bytes, 1, SCALE_BYTES)

MantissaField(bytes) == SubSeq(bytes, SCALE_BYTES + 1, Len(bytes))

TruncateMantissa_all(mb) == mb
TruncateMantissa_last(mb) == SubSeq(mb, Len(mb) - PADDING_BYTES + 1, Len(mb))
TruncateMantissa(mb) == SubSeq(mb, 1, PADDING_BYTES)

PadMantissa_right(mb) == mb \o Zeros(PADDING_BYTES - Len(mb))
PadMantissa_signext(mb) ==
    Rep(IF Len(mb) > 0 /\ mb[1] >= 128 THEN 255 ELSE 0, PADDING_BYTES - Len(mb)) \o mb
PadMantissa(mb) == Zeros(PADDING_BYTES - Len(mb)) \o mb

extract_scale_and_mantissa_from_slice(bytes) ==
    IF TooShort(bytes) THEN Err(ByteArrayTooShort(Len(bytes)))
    ELSE IF Len(bytes) < SCALE_BYTES THEN Panic("range end index out of range")
    ELSE
    LET scale_arr == TryInto(ScaleField(bytes), SCALE_BYTES)
        mantissa_bytes == MantissaField(bytes)
    IN  IF scale_arr.kind # "Ok"
        THEN Panic("Is safe because bytes length have been checked")
        ELSE IF Len(mantissa_bytes) >= PADDING_BYTES
        THEN LET arr == TryInto(TruncateMantissa(mantissa_bytes), PADDING_BYTES)
             IN  IF arr.kind # "Ok" THEN Err(InvalidMantissaConversion)
                 ELSE Ok([scale |-> u32_from_be_bytes(scale_arr.value),
                          mantissa |-> i128_from_be_bytes(arr.value)])
        ELSE LET arr == TryInto(PadMantissa(mantissa_bytes), PADDING_BYTES)
             IN  IF arr.kind # "Ok" THEN Err(InvalidMantissaConversion)
                 ELSE Ok([scale |-> u32_from_be_bytes(scale_arr.value),
                          mantissa |-> i128_from_be_bytes(arr.value)])

(***************************************************************************)
(* deserialize and type_check                                              *)
(***************************************************************************)
\* the (extracted, result) pair of one deserialize call
deserialize_empty_is_missing(f) ==
    IF ~f.present \/ Len(f.val) = 0
    THEN [extracted |-> NotCalled, result |-> Err(FrameHasNoSlice)]
    ELSE LET e == extract_scale_and_mantissa_from_slice(f.val)
         IN  [extracted |-> e,
              result |-> IF e.kind = "Ok"
                         THEN from_i128_with_scale(e.value.mantissa, e.value.scale)
                         ELSE e]
deserialize(f) ==
    IF ~f.present
    THEN [extracted |-> NotCalled, result |-> Err(FrameHasNoSlice)]
    ELSE LET e == extract_scale_and_mantissa_from_slice(f.val)
         IN  [extracted |-> e,
              result |-> IF e.kind = "Ok"
                         THEN from_i128_with_scale(e.value.mantissa, e.value.scale)
                         ELSE e]

NativeDecimal == [variant |-> "Native", native |-> "Decimal"]

\* {:?} of a ColumnType and of NativeType::Decimal
DebugColumnType(t) ==
    IF t.variant = "Native" THEN <<"Native(", t.native, ")">> ELSE <<t.variant>>
DebugNativeDecimal == <<"Decimal">>

IsDecimal_any_native(t) == t.variant = "Native"
IsDecimal(t) == t.variant = "Native" /\ t.native = "Decimal"

TypeInfo(t) ==
    <<"Expected ">> \o DebugNativeDecimal \o <<", got ">> \o DebugColumnType(t)

type_check(t) ==
    IF ~IsDecimal(t) THEN Err(MismatchedType(TypeInfo(t))) ELSE Ok(<<>>)

(***************************************************************************)
(* Inputs                                                                  *)
(***************************************************************************)
ByteAlphabet == {0, 1, 128, 130, 255}
FillBytes == {0, 255}

SeqsUpTo(S, n) == UNION {[1..k -> S] : k \in 0..n}

\* no byte, or one byte of the alphabet
OptionalByte == {<<>>} \cup { <<b>> : b \in ByteAlphabet }

ScaleFields ==
    { <<0, 0, 0, 0>>, <<0, 0, 0, 2>>, <<0, 0, 0, 28>>, <<0, 0, 0, 29>>,
      <<0, 0, 1, 0>>, <<2, 0, 0, 0>>, <<128, 0, 0, 0>>, <<255, 255, 255, 255>> }

MantissaFields ==
    { h \o Rep(f, k) \o t :
        h \in OptionalByte, f \in FillBytes, k \in 0..MaxFill,
        t \in OptionalByte }

ShortSlices == SeqsUpTo(ByteAlphabet, SCALE_BYTES - 1)

Slices == ShortSlices \cup { s \o m : s \in ScaleFields, m \in MantissaFields }

Frames == {None} \cup { Some(b) : b \in Slices }

\* 96-bit magnitudes: 0, 1, 130, 255, 256, 12345, 65535, 123456, 2^32,
\* 2^95 and 2^96 - 1
Magnitudes ==
    { <<0, 0, 0, 0, 0, 0>>, <<0, 0, 0, 0, 0, 1>>, <<0, 0, 0, 0, 0, 130>>,
      <<0, 0, 0, 0, 0, 255>>, <<0, 0, 0, 0, 0, 256>>, <<0, 0, 0, 0, 0, 12345>>,
      <<0, 0, 0, 0, 0, 65535>>, <<0, 0, 0, 0, 1, 57920>>, <<0, 0, 0, 1, 0, 0>>,
      <<32768, 0, 0, 0, 0, 0>>,
      <<65535, 65535, 65535, 65535, 65535, 65535>> }

Scales == {0, 2, 3, MAX_SCALE}

Decimals ==
    { [neg |-> n, scale |-> s, mag |-> m] :
        n \in BOOLEAN, s \in Scales, m \in Magnitudes }

ColumnTypes ==
    { [variant |-> "Native", native |-> n] :
        n \in {"Decimal", "Int", "Varint", "Text"} }
    \cup { [variant |-> v, native |-> "-"] : v \in {"Collection", "Tuple"} }

(***************************************************************************)
(* The calls the host pipeline makes                                       *)
(***************************************************************************)
Init ==
    /\ value = None
    /\ buffer = None
    /\ frame = None
    /\ extracted = NotCalled
    /\ result = NotCalled
    /\ typ = None
    /\ checked = NotCalled
    /\ last = "none"

\* wrapper.serialize(&ColumnType::Native(NativeType::Decimal), writer), on a
\* fresh buffer
Serialize(d) ==
    /\ last = "none"
    /\ value' = Some(d)
    /\ buffer' = Some(serialize(d))
    /\ frame' = None
    /\ extracted' = NotCalled
    /\ result' = NotCalled
    /\ last' = "serialize"
    /\ UNCHANGED <<typ, checked>>

\* the written cell comes back as the frame slice of the column: the bytes
\* behind the cell's length
ReadBack ==
    /\ last = "serialize"
    /\ LET f == Some(SubSeq(buffer.val, SCALE_BYTES + 1, Len(buffer.val)))
           r == deserialize(f)
       IN  /\ frame' = f
           /\ extracted' = r.extracted
           /\ result' = r.result
    /\ last' = "readback"
    /\ UNCHANGED <<value, buffer, typ, checked>>

\* DecimalCql::deserialize(typ, frame) on bytes received from the wire; the
\* host deserializes a column only when its type check did not fail
Deserialize(f) ==
    /\ last = "none"
    /\ checked.kind # "Err"
    /\ LET r == deserialize(f)
       IN  /\ frame' = f
           /\ extracted' = r.extracted
           /\ result' = r.result
    /\ value' = None
    /\ buffer' = None
    /\ last' = "deserialize"
    /\ UNCHANGED <<typ, checked>>

\* DecimalCql::type_check(typ)
TypeCheck(t) ==
    /\ typ = None
    /\ last # "deserialize"
    /\ typ' = Some(t)
    /\ checked' = type_check(t)
    /\ UNCHANGED <<value, buffer, frame, extracted, result, last>>

Next ==
    \/ \E d \in Decimals : Serialize(d)
    \/ ReadBack
    \/ \E f \in Frames : Deserialize(f)
    \/ \E t \in ColumnTypes : TypeCheck(t)

Spec == Init /\ [][Next]_vars

(***************************************************************************)
(* Properties                                                              *)
(***************************************************************************)
Decoded == last \in {"deserialize", "readback"}
FromSlice == Decoded /\ frame.present
MantissaLen == Len(frame.val) - 4

\* C1: reading back the cell serialize wrote for a Decimal v succeeds and
\* yields a value equal to v, for positive, negative and zero mantissas.
RoundTrip ==
    last = "readback" =>
        /\ result.kind = "Ok"
        /\ DecimalEq(result.value, value.val)
        /\ DecimalEq(value.val, result.value)

RoundTripNegative ==
    /\ last = "readback"
    /\ value.val.neg
    /\ ~IsZero(value.val.mag)
    /\ result.kind = "Ok"
    /\ result.value.neg

\* C2: deserialize returns a value or one of the typed errors FrameHasNoSlice,
\* ByteArrayTooShort, InvalidMantissaConversion for every input; it never
\* panics.
DecodeNeverPanics ==
    Decoded =>
        \/ result.kind = "Ok"
        \/ /\ result.kind = "Err"
           /\ result.error.name \in
                {"FrameHasNoSlice", "ByteArrayTooShort", "InvalidMantissaConversion"}

\* C3: a slice of 0, 1, 2 or 3 bytes is rejected with ByteArrayTooShort
\* carrying exactly its length and nothing is extracted; a slice of 4 or more
\* bytes is never rejected with ByteArrayTooShort.
ShortBufferRejection ==
    FromSlice =>
        /\ Len(frame.val) \in 0..3 =>
              /\ extracted = Err([name |-> "ByteArrayTooShort", len |-> Len(frame.val)])
              /\ result = extracted
        /\ Len(frame.val) >= 4 =>
              /\ ~(extracted.kind = "Err" /\ extracted.error.name = "ByteArrayTooShort")
              /\ ~(result.kind = "Err" /\ result.error.name = "ByteArrayTooShort")

ShortBufferRejected ==
    /\ last = "deserialize"
    /\ frame.present
    /\ Len(frame.val) = 3
    /\ result.kind = "Err"
    /\ result.error.len = 3

\* C4: serialize writes the length 20, then exactly 20 bytes: the 4-byte
\* big-endian scale and the full 16-byte big-endian two's-complement mantissa,
\* untrimmed (12345 with scale 2: 00 00 00 02, fourteen zero bytes, 30 39).
EncoderFormat ==
    buffer.present =>
        LET cell == buffer.val
            v == value.val
        IN  /\ Len(cell) = 24
            /\ SubSeq(cell, 1, 4) = <<0, 0, 0, 20>>
            /\ SubSeq(cell, 5, 8) = <<0, 0, 0, v.scale>>
            /\ i128_from_be_bytes(SubSeq(cell, 9, 24)) = mantissa(v)
            /\ (v = [neg |-> FALSE, scale |-> 2, mag |-> <<0, 0, 0, 0, 0, 12345>>]) =>
                  cell = <<0, 0, 0, 20, 0, 0, 0, 2,
                           0, 0, 0, 0, 0, 0, 0, 0, 0, 0, 0, 0, 0, 0, 48, 57>>
            /\ (v = [neg |-> TRUE, scale |-> 0, mag |-> <<0, 0, 0, 0, 0, 1>>]) =>
                  cell = <<0, 0, 0, 20, 0, 0, 0, 0>> \o Rep(255, 16)

Encoded12345 ==
    /\ last = "serialize"
    /\ value.val = [neg |-> FALSE, scale |-> 2, mag |-> <<0, 0, 0, 0, 0, 12345>>]
    /\ buffer.present
    /\ Len(buffer.val) = 24

\* C5: with a mantissa field of 16 or more bytes the extracted scale is the
\* one the first 4 bytes encode and the mantissa is the signed big-endian
\* reading of the field's first 16 bytes; the bytes behind them change
\* nothing: the outcome is that of the slice cut to 20 bytes.
Truncation ==
    (FromSlice /\ Len(frame.val) >= 4 /\ MantissaLen >= 16) =>
        /\ extracted.kind = "Ok"
        /\ Unlimbs(extracted.value.scale) = SubSeq(frame.val, 1, 4)
        /\ i128_to_be_bytes(extracted.value.mantissa) = SubSeq(frame.val, 5, 20)
        /\ deserialize(Some(SubSeq(frame.val, 1, 20)))
             = [extracted |-> extracted, result |-> result]
        /\ result.kind = "Ok" =>
              /\ mantissa(result.value) = extracted.value.mantissa
              /\ scale(result.value) = extracted.value.scale

TruncatedTrailingBytes ==
    /\ last = "deserialize"
    /\ frame.present
    /\ Len(frame.val) > 20
    /\ frame.val[Len(frame.val)] # 0
    /\ extracted.kind = "Ok"

\* C6: with a mantissa field m shorter than 16 bytes extraction succeeds with
\* the scale the first 4 bytes encode and the mantissa whose 16 big-endian
\* bytes are (16 - Len(m)) zero bytes followed by m; an empty field gives
\* mantissa 0.
LeftPadding ==
    (FromSlice /\ Len(frame.val) >= 4 /\ MantissaLen < 16) =>
        /\ extracted.kind = "Ok"
        /\ Unlimbs(extracted.value.scale) = SubSeq(frame.val, 1, 4)
        /\ i128_to_be_bytes(extracted.value.mantissa)
             = [i \in 1..16 |-> IF i <= 16 - MantissaLen THEN 0
                                ELSE frame.val[4 + i - (16 - MantissaLen)]]
        /\ MantissaLen = 0 =>
              extracted.value.mantissa = [neg |-> FALSE, mag |-> <<0, 0, 0, 0, 0, 0, 0, 0>>]
        /\ result.kind = "Ok" =>
              /\ mantissa(result.value) = extracted.value.mantissa
              /\ scale(result.value) = extracted.value.scale

PaddedShortMantissa ==
    /\ last = "deserialize"
    /\ frame.present
    /\ Len(frame.val) \in 6..19
    /\ frame.val[5] = 1
    /\ extracted.kind = "Ok"

\* C7: type_check returns Ok exactly for the native decimal column type; for
\* every other type it returns the MismatchedType error whose message names the
\* expected and the actual type; the call changes nothing else.
TypeIdentityCheck ==
    [][(typ' # typ) =>
        /\ UNCHANGED <<value, buffer, frame, extracted, result, last>>
        /\ (checked'.kind = "Ok") <=>
              (typ'.val.variant = "Native" /\ typ'.val.native = "Decimal")
        /\ checked'.kind # "Ok" =>
              /\ checked'.kind = "Err"
              /\ checked'.error.name = "MismatchedType"
              /\ LET shown == Display(checked'.error)
                     actual == IF typ'.val.variant = "Native"
                               THEN <<"Native(", typ'.val.native, ")">>
                               ELSE <<typ'.val.variant>>
                 IN  /\ shown[1] = "Type Mismatch: "
                     /\ \E i \in 1..Len(shown) :
                           /\ shown[i] = "Decimal"
                           /\ \E j \in (i + 1)..Len(shown) :
                                 SubSeq(shown, j, Len(shown)) = actual
    ]_vars

TypeMismatchReported ==
    /\ typ.present
    /\ typ.val.native = "Int"
    /\ checked.kind = "Err"
    /\ last = "readback"

\* C8: deserialize fails with FrameHasNoSlice when the frame is absent and
\* only then; a present slice, the empty one included, is judged by its bytes.
MissingFrame ==
    Decoded =>
        /\ (~frame.present) <=>
              (result.kind = "Err" /\ result.error.name = "FrameHasNoSlice")
        /\ (frame.present /\ Len(frame.val) = 0) =>
              result = Err([name |-> "ByteArrayTooShort", len |-> 0])
        /\ frame.present => extracted.kind # "NotCalled"

FrameWasMissing ==
    /\ last = "deserialize"
    /\ ~frame.present
    /\ result.kind = "Err"
    /\ result.error.name = "FrameHasNoSlice"

\* C9: a mantissa field of 1 to 15 bytes is never sign-extended: the mantissa
\* extracted is non-negative and is the unsigned big-endian value of the
\* field, below 256^Len(m), also with the top bit of the first byte set (0xFF
\* gives 255, 0x82 gives 130); a negative mantissa comes only from a field of
\* 16 or more bytes.
NoSignExtension ==
    (FromSlice /\ Len(frame.val) >= 4) =>
        /\ MantissaLen \in 1..15 =>
              /\ extracted.kind = "Ok"
              /\ ~extracted.value.mantissa.neg
              /\ LET magnitude == Unlimbs(extracted.value.mantissa.mag)
                 IN  /\ SubSeq(magnitude, 17 - MantissaLen, 16)
                          = SubSeq(frame.val, 5, Len(frame.val))
                     /\ \A i \in 1..(16 - MantissaLen) : magnitude[i] = 0
        /\ (extracted.kind = "Ok" /\ extracted.value.mantissa.neg) => MantissaLen >= 16
        /\ frame.val = <<0, 0, 0, 2, 130>> =>
              extracted = Ok([scale |-> <<0, 2>>,
                              mantissa |-> [neg |-> FALSE,
                                            mag |-> <<0, 0, 0, 0, 0, 0, 0, 130>>]])
        /\ frame.val = <<0, 0, 0, 0, 255>> =>
              extracted.value.mantissa
                 = [neg |-> FALSE, mag |-> <<0, 0, 0, 0, 0, 0, 0, 255>>]

TopBitSetShortMantissa ==
    /\ last = "deserialize"
    /\ frame.present
    /\ frame.val = <<0, 0, 0, 2, 130>>
    /\ extracted.kind = "Ok"
    /\ result.kind = "Ok"

\* C10: the buffer handed to the 128-bit conversion has exactly 16 bytes on
\* the truncation path and on the padding path, whose padding length never
\* goes below zero, so InvalidMantissaConversion is never returned.
InvalidMantissaConversionUnreachable ==
    Decoded =>
        /\ ~(result.kind = "Err" /\ result.error.name = "InvalidMantissaConversion")
        /\ ~(extracted.kind = "Err" /\ extracted.error.name = "InvalidMantissaConversion")
        /\ extracted.kind # "Panic"
        /\ (frame.present /\ Len(frame.val) >= 4) =>
              LET m == MantissaField(frame.val)
              IN  IF Len(m) >= 16
                  THEN Len(TruncateMantissa(m)) = 16
                  ELSE 16 - Len(m) >= 0 /\ Len(PadMantissa(m)) = 16

ConvertedNegativeMantissa ==
    /\ last = "deserialize"
    /\ frame.present
    /\ Len(frame.val) = 20
    /\ extracted.kind = "Ok"
    /\ extracted.value.mantissa.neg

====
